---- MODULE Spec2Model ----
(***************************************************************************)
(* A model of the request-handling core of go-simple-upload-server (v2):   *)
(* the gorilla/mux routes registered by Server.Start, the authentication   *)
(* middleware, the handlers behind Server.handle and the upload pipeline   *)
(* Server.processUpload, over an abstract document root.                   *)
(*                                                                         *)
(* Strings the code takes apart (URL paths, the Authorization header) are  *)
(* sequences of tokens whose concatenation is the string: "/files/a/b" is  *)
(* <<"/files", "/", "a", "/", "b">>.  File contents are sequences of       *)
(* bytes.  A path below the document root is the sequence of its segments. *)
(***************************************************************************)
EXTENDS Integers, Sequences, FiniteSets, TLC

VARIABLES
    config,     \* the ServerConfig the Server was built with (never assigned)
    fs,         \* the tree below DocumentRoot: path -> [kind, data]
    req,        \* the request served last
    resp,       \* the response it got
    fsBefore,   \* the tree as it was when that request arrived
    inflight,   \* the upload whose goroutine is between two storage calls
    racing,     \* two uploads served by two goroutines at once
    start,      \* Server.Start: where it stands, its listener and its channels
    app         \* app.ParseConfig: the arguments, the config file and the result

vars == <<config, fs, req, resp, fsBefore, inflight, racing, start, app>>

----------------------------------------------------------------------------
(* Bounds of the model *)

\* longest uploaded content, in bytes
MaxContentLen == 2

Bytes == {1, 2}

Contents == UNION {[1..n -> Bytes] : n \in 0..MaxContentLen}

\* the values of ServerConfig.MaxUploadSize explored: some content fits, some does not
MaxUploadSizes == 0..(MaxContentLen - 1)
\* bytes moved by one round of io.Copy's loop (32 KiB in the library)
ChunkLen == 1
\* the longest ShutdownTimeout, in milliseconds
MaxShutdownTimeout == 2

Min(a, b) == IF a < b THEN a ELSE b

----------------------------------------------------------------------------
(* HTTP status codes (net/http) as the source names them *)

StatusOK == 200
StatusCreated == 201
StatusNoContent == 204
StatusPartialContent == 206
StatusUnauthorized == 401
StatusNotFound == 404
StatusMethodNotAllowed == 405
StatusConflict == 409
StatusRequestEntityTooLarge == 413
StatusRequestedRangeNotSatisfiable == 416
StatusInternalServerError == 500

----------------------------------------------------------------------------
(* The storage tree: afero.NewBasePathFs(afero.NewOsFs(), DocumentRoot) *)

Dir == [kind |-> "dir", data |-> <<>>]
File(data) == [kind |-> "file", data |-> data]

\* the proper ancestors of a path below the root
Ancestors(p) == {SubSeq(p, 1, k) : k \in 1..(Len(p) - 1)}

\* what is at p: "dir", "file" or "none"; the document root itself is a directory
Kind(tree, p) ==
    IF p = <<>> THEN "dir"
    ELSE IF p \in DOMAIN tree THEN tree[p].kind
    ELSE "none"

\* os.Stat below the base path: "" on success, else the errno
Stat(tree, p) ==
    IF \E q \in Ancestors(p) : Kind(tree, q) = "file" THEN "ENOTDIR"
    ELSE IF Kind(tree, p) = "none" THEN "ENOENT"
    ELSE ""

\* afero.Exists: (true, nil) | (false, nil) when os.IsNotExist | (false, err)
Exists(tree, p) ==
    LET e == Stat(tree, p) IN
    IF e = "" THEN [exists |-> TRUE, err |-> ""]
    ELSE IF e = "ENOENT" THEN [exists |-> FALSE, err |-> ""]
    ELSE [exists |-> FALSE, err |-> e]

\* tree with p bound to entry
Bind(tree, p, entry) ==
    [q \in (DOMAIN tree) \cup {p} |-> IF q = p THEN entry ELSE tree[q]]

\* Variant: os.Mkdir, which creates the last component only
Mkdir(tree, p) ==
    IF Kind(tree, p) = "dir" THEN [err |-> "", fs |-> tree]
    ELSE IF Kind(tree, p) = "file" THEN [err |-> "ENOTDIR", fs |-> tree]
    ELSE IF Kind(tree, SubSeq(p, 1, Len(p) - 1)) # "dir" THEN [err |-> "ENOENT", fs |-> tree]
    ELSE [err |-> "", fs |-> Bind(tree, p, Dir)]

RECURSIVE MkdirAll(_, _)
\* os.MkdirAll: creates p and every missing ancestor; fails on a component that is a file
MkdirAll(tree, p) ==
    IF Kind(tree, p) = "dir" THEN [err |-> "", fs |-> tree]
    ELSE IF Kind(tree, p) = "file" THEN [err |-> "ENOTDIR", fs |-> tree]
    ELSE LET up == MkdirAll(tree, SubSeq(p, 1, Len(p) - 1)) IN
         IF up.err # "" THEN up
         ELSE [err |-> "", fs |-> Bind(up.fs, p, Dir)]

\* Variant: the open without O_TRUNC, an existing file keeps its bytes
OpenFileKeep(tree, p) ==
    IF p = <<>> \/ Kind(tree, p) = "dir" THEN [err |-> "EISDIR", fs |-> tree]
    ELSE IF Stat(tree, SubSeq(p, 1, Len(p) - 1)) # "" THEN
        [err |-> Stat(tree, SubSeq(p, 1, Len(p) - 1)), fs |-> tree]
    ELSE IF Kind(tree, p) = "file" THEN [err |-> "", fs |-> tree]
    ELSE [err |-> "", fs |-> Bind(tree, p, File(<<>>))]

\* OpenFile(path, O_WRONLY|O_CREATE|O_TRUNC): the file is created or emptied
OpenFileTrunc(tree, p) ==
    IF p = <<>> \/ Kind(tree, p) = "dir" THEN [err |-> "EISDIR", fs |-> tree]
    ELSE IF Stat(tree, SubSeq(p, 1, Len(p) - 1)) # "" THEN
        [err |-> Stat(tree, SubSeq(p, 1, Len(p) - 1)), fs |-> tree]
    ELSE [err |-> "", fs |-> Bind(tree, p, File(<<>>))]

\* os.Open for reading
Open(tree, p) == Stat(tree, p)

\* Variant: a limit that is exclusive, n bytes are already too many
MaxBytesReadExclusive(src, n) ==
    [data |-> SubSeq(src, 1, Min(Len(src), n)), tooLarge |-> Len(src) >= n]

\* Variant: a limit that lets one byte more through
MaxBytesReadOneMore(src, n) ==
    [data |-> SubSeq(src, 1, Min(Len(src), n + 1)), tooLarge |-> Len(src) > n + 1]

\* http.MaxBytesReader(w, srcFile, n) read to its end by io.Copy: the bytes
\* delivered before the reader stops, and whether it stopped on MaxBytesError
MaxBytesRead(src, n) ==
    [data |-> SubSeq(src, 1, Min(Len(src), n)), tooLarge |-> Len(src) > n]

\* io.Copy(dstFile, src): every chunk read is written, from offset 0 of the
\* opened file, before the error is looked at
Copy(tree, p, src, n) ==
    LET rd == MaxBytesRead(src, n)
        old == tree[p].data
    IN [tooLarge |-> rd.tooLarge, written |-> Len(rd.data),
        fs |-> Bind(tree, p, File(rd.data \o SubSeq(old, Len(rd.data) + 1, Len(old))))]

----------------------------------------------------------------------------
(* Strings *)

RECURSIVE Concat(_)
\* the string a token sequence stands for
Concat(toks) == IF toks = <<>> THEN "" ELSE Head(toks) \o Concat(Tail(toks))

\* strings.ToLower on the strings the model feeds it
ToLower(s) ==
    CASE s = "TRUE" -> "true"
      [] s = "Yes" -> "yes"
      [] OTHER -> s

\* strings.TrimPrefix(s, prefix) for a prefix that is one token
TrimPrefix(toks, prefix) ==
    IF toks # <<>> /\ Head(toks) = prefix THEN Tail(toks) ELSE toks

\* strings.HasPrefix(s, prefix) for a prefix that is one token
HasPrefix(toks, prefix) == toks # <<>> /\ Head(toks) = prefix

\* Variant: every non-empty value counts as true
parseBoolishValueNonEmpty(s) == s # ""

\* parseBoolishValue: "yes", "true" and "1", in any letter case
parseBoolishValue(s) == ToLower(s) \in {"yes", "true", "1"}

\* fileRe = ^/files/(.+)$ : the submatch, or "" (no tokens) when it does not match
getPathFromURL(urlPath) ==
    IF Len(urlPath) >= 3 /\ urlPath[1] = "/files" /\ urlPath[2] = "/"
    THEN SubSeq(urlPath, 3, Len(urlPath))
    ELSE <<>>

\* filepath.Dir on a slash-separated path
FilepathDir(path) ==
    LET slashes == {k \in 1..Len(path) : path[k] = "/"} IN
    IF slashes = {} THEN <<".">>
    ELSE LET last == CHOOSE k \in slashes : \A j \in slashes : j <= k IN
         IF last = 1 THEN <<"/">> ELSE SubSeq(path, 1, last - 1)

\* BasePathFs.RealPath: the cleaned path below the base, as its segments
RealPath(path) == SelectSeq(path, LAMBDA t : t \notin {"/", "."})

----------------------------------------------------------------------------
(* Requests and responses *)

NoForm == [present |-> FALSE, filename |-> "", content |-> <<>>]

\* a multipart body whose part "file" carries content under the given file name
\* ("" when the part has no filename parameter)
FilePart(filename, content) ==
    [present |-> TRUE, filename |-> filename, content |-> content]

\* r.FormFile(FormFileKey): the first file of the parsed form under "file".
\* mime/multipart files a part as a file only when it has a file name (a part
\* without one is a form value), so FormFile fails with ErrMissingFile unless
\* the body has a part "file" with a non-empty file name.
FormFile(r) ==
    IF r.form.present /\ r.form.filename # ""
    THEN [err |-> "", file |-> r.form.content, filename |-> r.form.filename]
    ELSE [err |-> "http: no such file", file |-> <<>>, filename |-> ""]

\* method, URL path, the overwrite and token query values ("" when absent), the
\* Authorization header (no tokens when absent) and the multipart body
Request(method, urlPath, overwrite, authorization, token, form) ==
    [method |-> method, path |-> urlPath, overwrite |-> overwrite,
     authorization |-> authorization, token |-> token, form |-> form,
     range |-> -1]

\* the request with the header "Range: bytes=<first>-"; range is -1 without it
WithRange(r, first) == [r EXCEPT !.range = first]

NoBody == [kind |-> "none"]
JSON(v) == [kind |-> "json", value |-> v]
Raw(data) == [kind |-> "raw", value |-> data]
Text(line) == [kind |-> "text", value |-> line]

ErrorResult(msg) == [ok |-> FALSE, error |-> msg]
SuccessfullyUploadedResult(path) == [ok |-> TRUE, path |-> path]

ErrFileSizeLimitExceeded == "file size limit exceeded"

\* an http.ResponseWriter nothing was written to: status 0, no headers
NewResponseWriter ==
    [status |-> 0, body |-> NoBody, panicked |-> FALSE,
     acao |-> "", acam |-> <<>>, allow |-> <<>>, wwwAuthenticate |-> "",
     contentType |-> "", contentLength |-> -1,
     wroteHeader |-> 0, wroteBody |-> 0]

\* w.WriteHeader: the first status written is the one sent; wroteHeader counts
\* the calls
WriteHeader(w, status) ==
    [w EXCEPT !.status = IF w.status = 0 THEN status ELSE @, !.wroteHeader = @ + 1]

\* the WriteHeader(StatusOK) that w.Write does when no status was written
ImplicitHeader(w) == IF w.wroteHeader = 0 THEN WriteHeader(w, StatusOK) ELSE w

\* Variant: a writer that sends the body in answer to HEAD too
WriteAnyMethod(w, r, body) ==
    [ImplicitHeader(w) EXCEPT !.body = body, !.wroteBody = @ + 1]

\* w.Write: an implicit 200 when no status was written; net/http sends no body
\* in answer to HEAD; wroteBody counts the bodies sent
Write(w, r, body) ==
    LET w1 == ImplicitHeader(w) IN
    IF r.method = "HEAD" THEN w1 ELSE [w1 EXCEPT !.body = body, !.wroteBody = @ + 1]

\* what a handler hands back: the writer, the tree, and its (status, result) pair
Return(w, tree, status, result) ==
    [w |-> w, fs |-> tree, status |-> status, result |-> result, panicked |-> FALSE]

\* a handler that panicked: net/http recovers and drops the connection
Panic(tree) ==
    [w |-> [NewResponseWriter EXCEPT !.panicked = TRUE], fs |-> tree,
     status |-> 0, result |-> NoBody, panicked |-> TRUE]

----------------------------------------------------------------------------
(* File naming strategies *)

\* the hex digest of the content; the model's digest tells contents apart by
\* the parity of their length only
SHA256Hex(content) == IF Len(content) % 2 = 0 THEN "h0" ELSE "h1"

\* UUIDStrategy: a fresh identifier, the file is not read
UUIDStrategy(file, uuid) == [name |-> uuid, rest |-> file]

\* SHA256Strategy: io.Copy(h, file) reads the file to its end and leaves it there
SHA256Strategy(file, uuid) == [name |-> SHA256Hex(file), rest |-> <<>>]

\* strategies[strings.ToLower(name)], DefaultNamingStrategy for "", nil for an unknown name
ResolveFileNamingStrategy(name) ==
    IF name = "" THEN "uuid"
    ELSE IF ToLower(name) \in {"uuid", "sha256"} THEN ToLower(name)
    ELSE "nil"

\* namer(srcFile, info) for a resolved strategy
CallNamer(namer, file, uuid) ==
    IF namer = "sha256" THEN SHA256Strategy(file, uuid) ELSE UUIDStrategy(file, uuid)

----------------------------------------------------------------------------
(* The upload pipeline *)

\* processUpload's error returns
UploadFailed(w, tree, status, msg) ==
    [w |-> w, fs |-> tree, status |-> status, destPath |-> "", err |-> msg,
     panicked |-> FALSE]

\* the path the upload goes to and what is left to read of srcFile: the explicit
\* path on PUT; on POST "/" + info.Filename, or a generated name when that is empty
ResolveDestination(cfg, info, path, uuid) ==
    IF path # <<>> THEN
        [panicked |-> FALSE, path |-> path, rest |-> info.file]
    ELSE IF info.filename # "" THEN
        [panicked |-> FALSE, path |-> <<"/", info.filename>>, rest |-> info.file]
    ELSE LET namer == ResolveFileNamingStrategy(cfg.FileNamingStrategy) IN
         IF namer = "nil" THEN
            \* a call of a nil func value
            [panicked |-> TRUE, path |-> <<>>, rest |-> <<>>]
         ELSE LET n == CallNamer(namer, info.file, uuid) IN
              [panicked |-> FALSE, path |-> <<"/", n.name>>, rest |-> n.rest]

\* Variant: the slash is prepended whether or not the path has one
PublicPathSlashed(path) == Concat(<<"/files", "/">> \o path)

\* destPath as returned to the client: "/files" + path, path given a leading slash
PublicPath(path) ==
    Concat(<<"/files">> \o (IF HasPrefix(path, "/") THEN path ELSE <<"/">> \o path))

\* Variant: the destination is opened before the conflict is answered
WriteUploadOpensFirst(cfg, tree, w, r, path, rest) ==
    LET allowOverwrite == parseBoolishValue(r.overwrite)
        p  == RealPath(path)
        ex == Exists(tree, p)
        mk == MkdirAll(tree, RealPath(FilepathDir(path)))
        op == OpenFileTrunc(mk.fs, p)
        cp == Copy(op.fs, p, rest, cfg.MaxUploadSize)
    IN
    IF ex.err # "" THEN
        UploadFailed(w, tree, StatusInternalServerError,
                     "cannot check the existence of the file")
    ELSE IF mk.err # "" THEN
        UploadFailed(w, mk.fs, StatusInternalServerError, "cannot create directories")
    ELSE IF op.err # "" THEN
        UploadFailed(w, op.fs, StatusInternalServerError, "cannot open file")
    ELSE IF ex.exists /\ ~allowOverwrite THEN
        UploadFailed(w, op.fs, StatusConflict, "the file already exists")
    ELSE IF cp.tooLarge THEN
        UploadFailed(w, cp.fs, StatusRequestEntityTooLarge, ErrFileSizeLimitExceeded)
    ELSE
        [w |-> IF cfg.EnableCORS THEN [w EXCEPT !.acao = "*"] ELSE w,
         fs |-> cp.fs, status |-> StatusCreated, destPath |-> PublicPath(path),
         err |-> "", panicked |-> FALSE]

\* from the existence check on, for a destination path and the unread rest of srcFile
WriteUpload(cfg, tree, w, r, path, rest) ==
    LET allowOverwrite == parseBoolishValue(r.overwrite)
        p  == RealPath(path)
        ex == Exists(tree, p)
        mk == MkdirAll(tree, RealPath(FilepathDir(path)))
        op == OpenFileTrunc(mk.fs, p)
        cp == Copy(op.fs, p, rest, cfg.MaxUploadSize)
    IN
    IF ex.err # "" THEN
        UploadFailed(w, tree, StatusInternalServerError,
                     "cannot check the existence of the file")
    ELSE IF ex.exists /\ ~allowOverwrite THEN
        UploadFailed(w, tree, StatusConflict, "the file already exists")
    ELSE IF mk.err # "" THEN
        UploadFailed(w, mk.fs, StatusInternalServerError, "cannot create directories")
    ELSE IF op.err # "" THEN
        UploadFailed(w, op.fs, StatusInternalServerError, "cannot open file")
    ELSE IF cp.tooLarge THEN
        UploadFailed(w, cp.fs, StatusRequestEntityTooLarge, ErrFileSizeLimitExceeded)
    ELSE
        [w |-> IF cfg.EnableCORS THEN [w EXCEPT !.acao = "*"] ELSE w,
         fs |-> cp.fs, status |-> StatusCreated, destPath |-> PublicPath(path),
         err |-> "", panicked |-> FALSE]

\* Server.processUpload(w, r, path); path is empty on POST
processUpload(cfg, tree, w, r, path, uuid) ==
    IF FormFile(r).err # "" THEN
        UploadFailed(w, tree, StatusInternalServerError,
                     "cannot obtain the uploaded content")
    ELSE LET dst == ResolveDestination(cfg, FormFile(r), path, uuid) IN
         IF dst.panicked THEN
            [w |-> w, fs |-> tree, status |-> 0, destPath |-> "", err |-> "",
             panicked |-> TRUE]
         ELSE WriteUpload(cfg, tree, w, r, dst.path, dst.rest)

\* processUpload from the existence check to OpenFile: the status of the error
\* return taken (0 when dstFile is open) and the tree left behind
OpenDestination(cfg, tree, r, path) ==
    LET allowOverwrite == parseBoolishValue(r.overwrite)
        p  == RealPath(path)
        ex == Exists(tree, p)
        mk == MkdirAll(tree, RealPath(FilepathDir(path)))
        op == OpenFileTrunc(mk.fs, p)
    IN
    IF ex.err # "" THEN [status |-> StatusInternalServerError, fs |-> tree]
    ELSE IF ex.exists /\ ~allowOverwrite THEN [status |-> StatusConflict, fs |-> tree]
    ELSE IF mk.err # "" THEN [status |-> StatusInternalServerError, fs |-> mk.fs]
    ELSE IF op.err # "" THEN [status |-> StatusInternalServerError, fs |-> op.fs]
    ELSE [status |-> 0, fs |-> op.fs]

\* one round of io.Copy's loop: the next chunk read from src (the
\* MaxBytesReader over the part) is written to dstFile at its offset; the status
\* processUpload returns when the loop ends on EOF or on MaxBytesError, else 0
CopyChunk(tree, p, src, n, written) ==
    LET chunk == SubSeq(src, written + 1, Min(Min(Len(src), n), written + ChunkLen))
        \* a write behind the end of the file leaves a hole of zero bytes
        old   == tree[p].data \o [k \in 1..(written - Len(tree[p].data)) |-> 0]
    IN
    IF written = Len(src) THEN
        [status |-> StatusCreated, written |-> written, fs |-> tree]
    ELSE IF written >= n THEN
        [status |-> StatusRequestEntityTooLarge, written |-> written, fs |-> tree]
    ELSE [status |-> 0, written |-> written + Len(chunk),
          fs |-> Bind(tree, p, File(SubSeq(old, 1, written) \o chunk \o
                                    SubSeq(old, written + Len(chunk) + 1, Len(old))))]

----------------------------------------------------------------------------
(* Handlers *)

\* what handlePost and handlePut make of processUpload's return
UploadResult(cfg, up) ==
    IF up.panicked THEN Panic(up.fs)
    ELSE IF up.err # "" THEN Return(up.w, up.fs, up.status, JSON(ErrorResult(up.err)))
    ELSE Return(IF cfg.EnableCORS THEN [up.w EXCEPT !.acao = "*"] ELSE up.w,
                up.fs, StatusCreated, JSON(SuccessfullyUploadedResult(up.destPath)))

handlePost(cfg, tree, w, r, uuid) ==
    UploadResult(cfg, processUpload(cfg, tree, w, r, <<>>, uuid))

\* Variant: handlePut without the test for an empty path
handlePutAnyPath(cfg, tree, w, r, uuid) ==
    UploadResult(cfg, processUpload(cfg, tree, w, r, getPathFromURL(r.path), uuid))

handlePut(cfg, tree, w, r, uuid) ==
    LET path == getPathFromURL(r.path) IN
    IF path = <<>> THEN
        Return(w, tree, StatusMethodNotAllowed,
               JSON(ErrorResult("PUT is accepted on /files/:name")))
    ELSE UploadResult(cfg, processUpload(cfg, tree, w, r, path, uuid))

\* http.Error(w, msg, code): the message as a text/plain body
Error(w, r, msg, code) ==
    Write(WriteHeader([w EXCEPT !.contentType = "text/plain; charset=utf-8"], code),
          r, Text(msg))

\* http.ServeContent for a request without conditional headers: the whole
\* content; under "Range: bytes=<first>-" the content from that offset on, or
\* 416 when the offset is not inside it (the header is ignored for empty content)
ServeContent(w, r, data) ==
    IF r.range >= 0 /\ Len(data) > 0 /\ r.range >= Len(data) THEN
        Error(w, r, "invalid range: failed to overlap", StatusRequestedRangeNotSatisfiable)
    ELSE LET ranged == r.range >= 0 /\ Len(data) > 0
             sent == IF ranged THEN SubSeq(data, r.range + 1, Len(data)) ELSE data
             w1 == WriteHeader([w EXCEPT !.contentType = "sniffed",
                                         !.contentLength = Len(sent)],
                               IF ranged THEN StatusPartialContent ELSE StatusOK)
         IN IF r.method = "HEAD" THEN w1 ELSE Write(w1, r, Raw(sent))

handleGet(cfg, tree, w, r, uuid) ==
    LET requestPath == getPathFromURL(r.path)
        p == RealPath(requestPath)
        err == Open(tree, p)
    IN
    IF requestPath = <<>> THEN
        Return(w, tree, StatusNotFound, JSON(ErrorResult("file not found")))
    ELSE IF err = "ENOENT" THEN
        Return(w, tree, StatusNotFound, JSON(ErrorResult("file not found")))
    ELSE IF err # "" THEN
        Return(w, tree, StatusInternalServerError, JSON(ErrorResult("failed to open file")))
    ELSE IF Kind(tree, p) = "dir" THEN
        Return(w, tree, StatusNotFound,
               JSON(ErrorResult(Concat(requestPath) \o " is a directory")))
    ELSE \* justOK()
        Return(ServeContent(w, r, tree[p].data), tree, 0, NoBody)

handleOptions(cfg, tree, w, r, uuid) ==
    LET allowedMethods ==
            IF r.path = <<"/upload">> THEN <<"POST">>
            ELSE IF HasPrefix(r.path, "/files") THEN <<"GET", "PUT", "HEAD">>
            ELSE <<>>
        w1 == IF cfg.EnableCORS THEN [w EXCEPT !.acao = "*"] ELSE w
    IN Return([w1 EXCEPT !.acam = allowedMethods], tree, StatusNoContent, NoBody)

\* Variant: a handle that writes the status 200 for justOK() as well
handleWritesOK(h, r) ==
    IF h.panicked THEN h
    ELSE IF h.result # NoBody THEN
        LET w1 == [h.w EXCEPT !.contentType = "application/json"] IN
        [h EXCEPT !.w = Write(WriteHeader(w1, h.status), r, h.result)]
    ELSE [h EXCEPT !.w = WriteHeader(h.w, IF h.status # 0 THEN h.status ELSE StatusOK)]

\* Server.handle(f): turns the handler's (status, result) into the response
handle(h, r) ==
    IF h.panicked THEN h
    ELSE IF h.result # NoBody THEN
        LET w1 == [h.w EXCEPT !.contentType = "application/json"] IN
        [h EXCEPT !.w = Write(IF h.status # 0 THEN WriteHeader(w1, h.status) ELSE w1,
                              r, h.result)]
    ELSE IF h.status # 0 THEN [h EXCEPT !.w = WriteHeader(h.w, h.status)]
    ELSE h

\* r.NotFoundHandler
handleNotFound(w, r) ==
    Write(WriteHeader([w EXCEPT !.contentType = "application/json"], StatusNotFound),
          r, JSON(ErrorResult("not found")))

\* r.MethodNotAllowedHandler
handleMethodNotAllowed(w, r) ==
    LET files == HasPrefix(r.path, "/files")
        upload == r.path = <<"/upload">>
        endpoint == IF files THEN "/files" ELSE IF upload THEN "/upload" ELSE ""
        allowedMethods == IF files THEN <<"GET", "PUT">>
                          ELSE IF upload THEN <<"POST">> ELSE <<>>
        w1 == [w EXCEPT !.allow = allowedMethods, !.contentType = "application/json"]
    IN Write(WriteHeader(w1, StatusMethodNotAllowed), r,
             JSON(ErrorResult(r.method \o " is not allowed on " \o endpoint)))

writeUnauthorized(w, r) ==
    LET w1 == [w EXCEPT !.wwwAuthenticate = "Bearer",
                        !.contentType = IF r.method # "HEAD" THEN "application/json" ELSE @]
        w2 == WriteHeader(w1, StatusUnauthorized)
    IN IF r.method = "HEAD" THEN w2
       ELSE Write(w2, r, JSON(ErrorResult("unauthorized")))

----------------------------------------------------------------------------
(* The router built by Server.Start *)

\* the routes in the order they are registered
Routes ==
    << [path |-> "/upload", prefix |-> FALSE, methods |-> {"POST"},
        handler |-> "handlePost"],
       [path |-> "/upload", prefix |-> FALSE, methods |-> {"OPTIONS"},
        handler |-> "handleOptions"],
       [path |-> "/files", prefix |-> TRUE, methods |-> {"GET", "HEAD"},
        handler |-> "handleGet"],
       [path |-> "/files", prefix |-> TRUE, methods |-> {"PUT"},
        handler |-> "handlePut"],
       [path |-> "/files", prefix |-> TRUE, methods |-> {"OPTIONS"},
        handler |-> "handleOptions"] >>

\* r.HandleFunc(path, ...) matches the whole path, r.PathPrefix(path) its start
PathMatches(route, urlPath) ==
    IF route.prefix THEN HasPrefix(urlPath, route.path) ELSE urlPath = <<route.path>>

\* mux.Router.Match: the first route matching path and method; failing that the
\* MethodNotAllowedHandler when some route matches the path, else the NotFoundHandler
Match(r) ==
    LET onPath == {i \in 1..Len(Routes) : PathMatches(Routes[i], r.path)}
        hits == {i \in onPath : r.method \in Routes[i].methods}
    IN IF hits # {} THEN Routes[CHOOSE i \in hits : \A j \in hits : i <= j].handler
       ELSE IF onPath # {} THEN "handleMethodNotAllowed"
       ELSE "handleNotFound"

\* the handler function registered under a name, wrapped in Server.handle
Call(name, cfg, tree, w, r, uuid) ==
    LET h == CASE name = "handlePost" -> handlePost(cfg, tree, w, r, uuid)
               [] name = "handlePut" -> handlePut(cfg, tree, w, r, uuid)
               [] name = "handleGet" -> handleGet(cfg, tree, w, r, uuid)
               [] name = "handleOptions" -> handleOptions(cfg, tree, w, r, uuid)
        out == handle(h, r)
    IN [w |-> out.w, fs |-> out.fs, via |-> name, r |-> r]

\* Variant: the token of the query first, the header when the query has none
ExtractTokenQueryFirst(r) ==
    IF r.token # "" THEN r.token
    ELSE Concat(TrimPrefix(r.authorization, "Bearer "))

\* the token the middleware evaluates
ExtractToken(r) ==
    IF r.authorization # <<>> THEN Concat(TrimPrefix(r.authorization, "Bearer "))
    ELSE r.token

\* Variant: read-only tokens accepted for every method
AllowedTokensAnyMethod(cfg, method) == cfg.ReadWriteTokens \cup cfg.ReadOnlyTokens

\* the tokens accepted for a method
AllowedTokens(cfg, method) ==
    cfg.ReadWriteTokens \cup
        (IF method \in {"GET", "HEAD"} THEN cfg.ReadOnlyTokens ELSE {})

\* r.URL.RawQuery as its key=value pairs, and url.Values.Get on them
RawQuery(r) ==
    (IF r.token # "" THEN << <<"token", r.token>> >> ELSE <<>>) \o
    (IF r.overwrite # "" THEN << <<"overwrite", r.overwrite>> >> ELSE <<>>)
QueryGet(q, key) ==
    LET vs == SelectSeq(q, LAMBDA kv : kv[1] = key) IN
    IF vs = <<>> THEN "" ELSE Head(vs)[2]

\* url.Values.Del: every pair of the key is removed
QueryDel(q, key) == SelectSeq(q, LAMBDA kv : kv[1] # key)

\* url.Values.Encode: the pairs sorted by key
QueryEncode(q) ==
    SelectSeq(q, LAMBDA kv : kv[1] = "overwrite") \o
    SelectSeq(q, LAMBDA kv : kv[1] = "token")

\* Variant: the whole query is dropped with the token
StripWholeQuery(r) == [r EXCEPT !.authorization = <<>>, !.token = "", !.overwrite = ""]

\* the request as forwarded: Authorization deleted, token deleted from the
\* query, the query encoded again
StripCredentials(r) ==
    LET q == QueryEncode(QueryDel(RawQuery(r), "token")) IN
    [r EXCEPT !.authorization = <<>>,
              !.token = QueryGet(q, "token"),
              !.overwrite = QueryGet(q, "overwrite")]

\* Variant: the middleware without the pass for OPTIONS
authenticationMiddlewareAllMethods(name, cfg, tree, w, r, uuid) ==
    IF ExtractToken(r) = "" \/ ExtractToken(r) \notin AllowedTokens(cfg, r.method) THEN
        [w |-> writeUnauthorized(w, r), fs |-> tree, via |-> "writeUnauthorized", r |-> r]
    ELSE Call(name, cfg, tree, w, StripCredentials(r), uuid)

\* Server.authenticationMiddleware(next) around the matched route's handler
authenticationMiddleware(name, cfg, tree, w, r, uuid) ==
    IF r.method = "OPTIONS" THEN Call(name, cfg, tree, w, r, uuid)
    ELSE IF ExtractToken(r) = "" \/ ExtractToken(r) \notin AllowedTokens(cfg, r.method) THEN
        [w |-> writeUnauthorized(w, r), fs |-> tree, via |-> "writeUnauthorized", r |-> r]
    ELSE Call(name, cfg, tree, w, StripCredentials(r), uuid)

\* the router's ServeHTTP: middlewares (r.Use) wrap matched routes only
ServeHTTP(cfg, tree, r, uuid) ==
    LET name == Match(r)
        w == NewResponseWriter
    IN IF name = "handleNotFound" THEN
           [w |-> handleNotFound(w, r), fs |-> tree, via |-> name, r |-> r]
       ELSE IF name = "handleMethodNotAllowed" THEN
           [w |-> handleMethodNotAllowed(w, r), fs |-> tree, via |-> name, r |-> r]
       ELSE IF cfg.EnableAuth THEN authenticationMiddleware(name, cfg, tree, w, r, uuid)
       ELSE Call(name, cfg, tree, w, r, uuid)

----------------------------------------------------------------------------
(* Inputs *)

Methods == {"GET", "HEAD", "POST", "PUT", "OPTIONS", "DELETE"}

FilePaths == {<<"/files", "/", "a">>,
              <<"/files", "/", "a", "/", "b">>,
              <<"/files", "/", "a", "/", "b", "/", "c">>}

UrlPaths == FilePaths \cup
            {<<"/upload">>, <<"/files">>, <<"/files", "/">>, <<"/files", "x">>, <<"/abc">>}

OverwriteValues == {"", "true", "TRUE", "Yes", "1", "0"}

\* what uuid.NewString() may return
UUIDs == {"uuid1"}

\* requests without a multipart body, every method on every path
PlainRequests ==
    {Request(m, p, "", <<>>, "", NoForm) : m \in Methods, p \in UrlPaths}

\* uploads: POST /upload with a part "file" with or without a file name,
\* PUT /files/<path>
UploadRequests ==
    {Request("POST", <<"/upload">>, ow, <<>>, "", FilePart(f, c)) :
        ow \in OverwriteValues, f \in {"", "a"}, c \in Contents}
    \cup
    {Request("PUT", p, ow, <<>>, "", FilePart("a", c)) :
        p \in FilePaths \cup {<<"/files", "/">>}, ow \in OverwriteValues, c \in Contents}

\* downloads of a part of a file, from a first byte on
RangeRequests ==
    {WithRange(Request("GET", p, "", <<>>, "", NoForm), first) :
        p \in FilePaths, first \in 0..MaxContentLen}

Requests == PlainRequests \cup UploadRequests \cup RangeRequests

\* (Authorization header, token query value) pairs
Credentials ==
    { <<h, "">> : h \in { <<>>, <<"Bearer ", "rw">>, <<"Bearer ", "ro">>,
                          <<"Bearer ", "bad">>, <<"Bearer ">>, <<"rw">>,
                          <<"Basic ", "rw">> } }
    \cup { <<(<<>>), t>> : t \in {"rw", "ro", "bad"} }
    \cup { << <<"Bearer ", "bad">>, "rw" >>, << <<"Bearer ", "rw">>, "bad" >>,
           << <<"Bearer ">>, "rw" >> }

\* contents of one repeated byte, up to the longest
PlainContents == {c \in Contents : \A i \in 1..Len(c) : c[i] = 1}

AuthUploadRequests ==
    {Request(m[1], m[2], ow, <<>>, "", FilePart("a", c)) :
        m \in {<<"POST", <<"/upload">> >>, <<"PUT", <<"/files", "/", "a">> >>,
               <<"PUT", <<"/files", "/", "a", "/", "b">> >>},
        ow \in {"", "true"}, c \in PlainContents}

\* the same requests under every credential
AuthRequests ==
    {[r EXCEPT !.authorization = cr[1], !.token = cr[2]] :
        r \in PlainRequests \cup AuthUploadRequests, cr \in Credentials}

----------------------------------------------------------------------------
(* The server *)

ServerConfig(cors, maxUploadSize, strategy, auth, ro, rw) ==
    [EnableCORS |-> cors, MaxUploadSize |-> maxUploadSize,
     FileNamingStrategy |-> strategy, EnableAuth |-> auth,
     ReadOnlyTokens |-> ro, ReadWriteTokens |-> rw]

NoRequest == Request("", <<>>, "", <<>>, "", NoForm)

\* no upload is in progress
NoUpload ==
    [pc |-> "idle", r |-> NoRequest, path |-> <<>>, replaces |-> FALSE,
     old |-> <<>>, written |-> 0, status |-> 0]

\* the goroutines of two connections
Goroutines == {1, 2}

\* Start between its call and its return: pc is where Start stands, ready and
\* listening are the channel closed and the listener open, ctxDone the context
\* cancelled, inShutdown what srv.Shutdown sets, ret the buffered channel,
\* elapsed the milliseconds since sctx was made, served that srv.Serve returned
Started(timeout) ==
    [pc |-> "listen", ready |-> FALSE, listening |-> FALSE, ctxDone |-> FALSE,
     inShutdown |-> FALSE, served |-> FALSE, ret |-> <<>>, elapsed |-> 0,
     ShutdownTimeout |-> timeout, shutdownErr |-> "", err |-> ""]

\* Start blocked on <-ctx.Done() while srv.Serve accepts connections
Serving ==
    [Started(0) EXCEPT !.pc = "serving", !.ready = TRUE, !.listening = TRUE]

\* ParseConfig not called
NotParsed == [parsed |-> FALSE]

\* NewServer(config) on an empty document root, no request served yet, with
\* Start serving
NewServer(cfg) ==
    /\ config = cfg
    /\ fs = <<>>
    /\ fsBefore = <<>>
    /\ req = NoRequest
    /\ resp = NewResponseWriter
    /\ inflight = NoUpload
    /\ racing = [g \in Goroutines |-> NoUpload]
    /\ start = Serving
    /\ app = NotParsed

\* the server is sent r and answers it through the handler named
Serve(name, r, uuid) ==
    /\ Match(r) = name \/ name = "writeUnauthorized"
    /\ \E out \in {ServeHTTP(config, fs, r, uuid)} :
        /\ out.via = name
        /\ req' = r
        /\ resp' = out.w
        /\ fs' = out.fs
    /\ fsBefore' = fs
    /\ UNCHANGED <<config, inflight, racing, start, app>>

\* one action per terminal handler, enabled while the server awaits a request
Post(R) ==
    /\ req = NoRequest
    /\ \E r \in R, uuid \in UUIDs : Serve("handlePost", r, uuid)
Put(R) ==
    /\ req = NoRequest
    /\ \E r \in R, uuid \in UUIDs : Serve("handlePut", r, uuid)
Get(R) ==
    /\ req = NoRequest
    /\ \E r \in R, uuid \in UUIDs : Serve("handleGet", r, uuid)
Options(R) ==
    /\ req = NoRequest
    /\ \E r \in R, uuid \in UUIDs : Serve("handleOptions", r, uuid)
NotFound(R) ==
    /\ req = NoRequest
    /\ \E r \in R, uuid \in UUIDs : Serve("handleNotFound", r, uuid)
MethodNotAllowed(R) ==
    /\ req = NoRequest
    /\ \E r \in R, uuid \in UUIDs : Serve("handleMethodNotAllowed", r, uuid)
Unauthorized(R) ==
    /\ req = NoRequest
    /\ \E r \in R, uuid \in UUIDs : Serve("writeUnauthorized", r, uuid)

\* the exchange is over: srv.Serve awaits the next request
Await ==
    /\ req # NoRequest
    /\ req' = NoRequest
    /\ resp' = NewResponseWriter
    /\ fsBefore' = fs
    /\ UNCHANGED <<config, fs, inflight, racing, start, app>>

\* authentication disabled: every upload and naming strategy
Init ==
    \E cors \in BOOLEAN, n \in MaxUploadSizes, strategy \in {"", "sha256"} :
        NewServer(ServerConfig(cors, n, strategy, FALSE, {}, {}))

Next ==
    \/ Post(Requests)
    \/ Put(Requests)
    \/ Get(Requests)
    \/ Options(Requests)
    \/ NotFound(Requests)
    \/ MethodNotAllowed(Requests)
    \/ Await

Spec == Init /\ [][Next]_vars

\* authentication enabled: every credential
InitAuth ==
    \E cors \in BOOLEAN, rw \in {{}, {"rw"}} :
        NewServer(ServerConfig(cors, MaxContentLen - 1, "", TRUE, {"ro"}, rw))

NextAuth ==
    \/ Post(AuthRequests)
    \/ Put(AuthRequests)
    \/ Get(AuthRequests)
    \/ Options(AuthRequests)
    \/ NotFound(AuthRequests)
    \/ MethodNotAllowed(AuthRequests)
    \/ Unauthorized(AuthRequests)
    \/ Await

SpecAuth == InitAuth /\ [][NextAuth]_vars

\* uploads by PUT that may replace a file, and downloads of whole files
ConcurrentUploads ==
    {Request("PUT", p, ow, <<>>, "", FilePart("a", c)) :
        p \in FilePaths, ow \in {"", "true"}, c \in Contents}
ConcurrentDownloads ==
    {Request("GET", p, "", <<>>, "", NoForm) : p \in FilePaths}

\* the goroutine of an upload, one of R, runs processUpload up to OpenFile
UploadOpenOf(R) ==
    /\ inflight.pc = "idle"
    /\ \E r \in R :
        \E path \in {getPathFromURL(r.path)} :
        \E out \in {OpenDestination(config, fs, r, path)} :
            /\ fs' = out.fs
            /\ inflight' =
                  [pc |-> IF out.status = 0 THEN "copy" ELSE "done",
                   r |-> r, path |-> RealPath(path),
                   replaces |-> Kind(fs, RealPath(path)) = "file",
                   old |-> IF Kind(fs, RealPath(path)) = "file"
                           THEN fs[RealPath(path)].data ELSE <<>>,
                   written |-> 0, status |-> out.status]
    /\ UNCHANGED <<config, req, resp, fsBefore, racing, start, app>>

UploadOpen == UploadOpenOf(ConcurrentUploads)

\* it runs one round of io.Copy
UploadCopy ==
    /\ inflight.pc = "copy"
    /\ \E out \in {CopyChunk(fs, inflight.path, FormFile(inflight.r).file,
                              config.MaxUploadSize, inflight.written)} :
        /\ fs' = out.fs
        /\ inflight' = [inflight EXCEPT
                          !.pc = IF out.status = 0 THEN "copy" ELSE "done",
                          !.written = out.written, !.status = out.status]
    /\ UNCHANGED <<config, req, resp, fsBefore, racing, start, app>>

\* it returns and the upload is answered
UploadReturn ==
    /\ inflight.pc = "done"
    /\ inflight' = NoUpload
    /\ UNCHANGED <<config, fs, req, resp, fsBefore, racing, start, app>>

\* two uploads of different goroutines to one path, neither allowing overwrite
RacingUploads ==
    {Request("PUT", <<"/files", "/", "a">>, "", <<>>, "", FilePart("a", c)) :
        c \in Contents}

\* goroutine g is handed an upload and runs processUpload up to the existence
\* check
RaceExists(g) ==
    /\ racing[g].pc = "idle"
    /\ \E r \in RacingUploads :
        \E p \in {RealPath(getPathFromURL(r.path))} :
        \E ex \in {Exists(fs, p)} :
            racing' = [racing EXCEPT ![g] =
                [NoUpload EXCEPT
                    !.r = r, !.path = p,
                    !.pc = IF ex.err # "" \/ (ex.exists /\ ~parseBoolishValue(r.overwrite))
                           THEN "done" ELSE "open",
                    !.status = IF ex.err # "" THEN StatusInternalServerError
                               ELSE IF ex.exists /\ ~parseBoolishValue(r.overwrite)
                               THEN StatusConflict ELSE 0]]
    /\ UNCHANGED <<config, fs, req, resp, fsBefore, inflight, start, app>>

\* it creates the directories and opens the destination
RaceOpen(g) ==
    /\ racing[g].pc = "open"
    /\ \E mk \in {MkdirAll(fs, RealPath(FilepathDir(getPathFromURL(racing[g].r.path))))} :
        \E op \in {OpenFileTrunc(mk.fs, racing[g].path)} :
            /\ fs' = IF mk.err # "" THEN mk.fs ELSE op.fs
            /\ racing' = [racing EXCEPT ![g] =
                  [@ EXCEPT !.pc = IF mk.err # "" \/ op.err # "" THEN "done" ELSE "copy",
                            !.status = IF mk.err # "" \/ op.err # ""
                                       THEN StatusInternalServerError ELSE 0]]
    /\ UNCHANGED <<config, req, resp, fsBefore, inflight, start, app>>

\* it runs one round of io.Copy
RaceCopy(g) ==
    /\ racing[g].pc = "copy"
    /\ \E out \in {CopyChunk(fs, racing[g].path, FormFile(racing[g].r).file,
                              config.MaxUploadSize, racing[g].written)} :
        /\ fs' = out.fs
        /\ racing' = [racing EXCEPT ![g] =
              [@ EXCEPT !.pc = IF out.status = 0 THEN "copy" ELSE "done",
                        !.written = out.written, !.status = out.status]]
    /\ UNCHANGED <<config, req, resp, fsBefore, inflight, start, app>>

InitRace ==
    NewServer(ServerConfig(FALSE, MaxContentLen, "", FALSE, {}, {}))

NextRace ==
    \E g \in Goroutines :
        \/ RaceExists(g)
        \/ RaceOpen(g)
        \/ RaceCopy(g)

SpecRace == InitRace /\ [][NextRace]_vars

\* one upload at a time, while downloads are served by other goroutines
InitConcurrent ==
    NewServer(ServerConfig(FALSE, MaxContentLen, "", FALSE, {}, {}))

NextConcurrent ==
    \/ UploadOpen
    \/ UploadCopy
    \/ UploadReturn
    \/ Get(ConcurrentDownloads)
    \/ Await

SpecConcurrent == InitConcurrent /\ [][NextConcurrent]_vars

----------------------------------------------------------------------------
(* Server.Start from the listen to the return *)

ErrServerClosed == "http: Server closed"
DeadlineExceeded == "context deadline exceeded"

\* the uploads a connection brings while the server listens
ShutdownUploads ==
    {Request("PUT", <<"/files", "/", "a">>, "true", <<>>, "", FilePart("a", c)) :
        c \in PlainContents}

\* Variant: a shutdown that waits for every connection, with no deadline
ShutdownWaitsForAll(s, active) ==
    [done |-> ~active, err |-> ""]

\* srv.Shutdown(sctx) polling: it returns nil once no connection is active, and
\* ctx.Err() once sctx is done; until then it keeps polling
Shutdown(s, active) ==
    IF ~active THEN [done |-> TRUE, err |-> ""]
    ELSE IF s.elapsed >= s.ShutdownTimeout THEN [done |-> TRUE, err |-> DeadlineExceeded]
    ELSE [done |-> FALSE, err |-> ""]

\* net.Listen: Start returns the error, or closes ready and starts srv.Serve
Listen ==
    /\ start.pc = "listen"
    /\ \E bound \in BOOLEAN :
        start' = IF bound
                 THEN [start EXCEPT !.pc = "serving", !.listening = TRUE, !.ready = TRUE]
                 ELSE [start EXCEPT !.pc = "returned", !.err = "unable to listen"]
    /\ UNCHANGED <<config, fs, req, resp, fsBefore, inflight, racing, app>>

\* srv.Serve accepts a connection and its goroutine starts the handler
Accept ==
    /\ start.listening
    /\ UploadOpenOf(ShutdownUploads)

\* the context given to Start is cancelled
Cancel ==
    /\ start.pc \in {"listen", "serving"}
    /\ ~start.ctxDone
    /\ start' = [start EXCEPT !.ctxDone = TRUE]
    /\ UNCHANGED <<config, fs, req, resp, fsBefore, inflight, racing, app>>

\* Start passes <-ctx.Done(), makes sctx and calls srv.Shutdown, which closes
\* the listener
BeginShutdown ==
    /\ start.pc = "serving"
    /\ start.ctxDone
    /\ start' = [start EXCEPT !.pc = "shutdown", !.inShutdown = TRUE,
                              !.listening = FALSE, !.elapsed = 0]
    /\ UNCHANGED <<config, fs, req, resp, fsBefore, inflight, racing, app>>

\* a millisecond of sctx passes
Tick ==
    /\ start.pc = "shutdown"
    /\ start.elapsed < start.ShutdownTimeout
    /\ start' = [start EXCEPT !.elapsed = @ + 1]
    /\ UNCHANGED <<config, fs, req, resp, fsBefore, inflight, racing, app>>

\* srv.Serve finds its listener closed and sends its error on ret
ServeReturns ==
    /\ start.inShutdown
    /\ ~start.served
    /\ start' = [start EXCEPT !.served = TRUE, !.ret = Append(@, ErrServerClosed)]
    /\ UNCHANGED <<config, fs, req, resp, fsBefore, inflight, racing, app>>

\* srv.Shutdown returns; its error is logged
ShutdownReturns ==
    /\ start.pc = "shutdown"
    /\ \E out \in {Shutdown(start, inflight.pc # "idle")} :
        /\ out.done
        /\ start' = [start EXCEPT !.pc = "receive", !.shutdownErr = out.err]
    /\ UNCHANGED <<config, fs, req, resp, fsBefore, inflight, racing, app>>

\* err = <-ret; return err
StartReturns ==
    /\ start.pc = "receive"
    /\ start.ret # <<>>
    /\ start' = [start EXCEPT !.pc = "returned", !.err = Head(start.ret),
                              !.ret = Tail(start.ret)]
    /\ UNCHANGED <<config, fs, req, resp, fsBefore, inflight, racing, app>>

InitShutdown ==
    /\ config = ServerConfig(FALSE, MaxContentLen, "", FALSE, {}, {})
    /\ fs = <<>>
    /\ fsBefore = <<>>
    /\ req = NoRequest
    /\ resp = NewResponseWriter
    /\ inflight = NoUpload
    /\ racing = [g \in Goroutines |-> NoUpload]
    /\ app = NotParsed
    /\ \E timeout \in 0..MaxShutdownTimeout : start = Started(timeout)

NextShutdown ==
    \/ Listen
    \/ Accept
    \/ UploadCopy
    \/ UploadReturn
    \/ Cancel
    \/ BeginShutdown
    \/ Tick
    \/ ServeReturns
    \/ ShutdownReturns
    \/ StartReturns

SpecShutdown == InitShutdown /\ [][NextShutdown]_vars

\* the scheduler runs Start's goroutine, srv.Serve's goroutine and the clock;
\* nothing makes a handler finish or the context be cancelled
SpecShutdownFair ==
    /\ SpecShutdown
    /\ WF_vars(Listen)
    /\ WF_vars(BeginShutdown)
    /\ WF_vars(Tick)
    /\ WF_vars(ServeReturns)
    /\ WF_vars(ShutdownReturns)
    /\ WF_vars(StartReturns)

----------------------------------------------------------------------------
(* app.ParseConfig: defaults, config file, command-line flags.  A *bool is   *)
(* <<>> when nil and <<b>> when it points to b; a flag or a key of the file  *)
(* is <<>> when it is not given and <<v>> when it is given as v.             *)

DefaultMaxUploadSize == 1048576

DefaultConfig ==
    [MaxUploadSize |-> DefaultMaxUploadSize, FileNamingStrategy |-> "uuid",
     EnableCORS |-> <<>>, ReadOnlyTokens |-> <<>>]

\* the value of a flag variable or of a field decoded from JSON: the value
\* given, or the zero value of the type
ValueOr(given, zero) == IF given = <<>> THEN zero ELSE given[1]

\* mergo.Merge(&dst, src, mergo.WithOverride) on one field: a src that is the
\* empty value of its type leaves dst as it is
MergeField(dst, src, empty) == IF src = empty THEN dst ELSE src

\* the same on a *bool: a nil src is skipped, a nil dst is set to src, and two
\* pointers are merged through what they point to
MergePointer(dst, src) ==
    IF src = <<>> THEN dst
    ELSE IF dst = <<>> THEN src
    ELSE << MergeField(dst[1], src[1], FALSE) >>

Merge(dst, src) ==
    [MaxUploadSize |-> MergeField(dst.MaxUploadSize, src.MaxUploadSize, 0),
     FileNamingStrategy |-> MergeField(dst.FileNamingStrategy, src.FileNamingStrategy, ""),
     EnableCORS |-> MergePointer(dst.EnableCORS, src.EnableCORS),
     ReadOnlyTokens |-> MergeField(dst.ReadOnlyTokens, src.ReadOnlyTokens, <<>>)]

\* json.Decode into a ServerConfig{}: keys not in the file keep the zero value
DecodeFile(file) ==
    [MaxUploadSize |-> ValueOr(file.max_upload_size, 0),
     FileNamingStrategy |-> ValueOr(file.file_naming_strategy, ""),
     EnableCORS |-> file.enable_cors,
     ReadOnlyTokens |-> ValueOr(file.read_only_tokens, <<>>)]

\* configFromFlags: the flag variables, and the *bool only when the flag IsSet
ConfigFromFlags(args) ==
    [MaxUploadSize |-> ValueOr(args.max_upload_size, 0),
     FileNamingStrategy |-> ValueOr(args.file_naming_strategy, ""),
     EnableCORS |-> args.enable_cors,
     ReadOnlyTokens |-> ValueOr(args.read_only_tokens, <<>>)]

\* ServerConfig.AsConfig: a nil EnableCORS is true
AsConfig(c) == [c EXCEPT !.EnableCORS = IF c.EnableCORS = <<>> THEN TRUE ELSE c.EnableCORS[1]]

\* app.ParseConfig(args) with the config file named by -config (file.given)
ParseConfig(args, file) ==
    LET merged == IF file.given THEN Merge(DefaultConfig, DecodeFile(file))
                  ELSE DefaultConfig
    IN AsConfig(Merge(merged, ConfigFromFlags(args)))

\* a setting given or not, over the values of its type
Optional(values) == {<<>>} \cup {<<v>> : v \in values}

Settings ==
    [max_upload_size : Optional(0..MaxContentLen),
     file_naming_strategy : Optional({"", "uuid", "sha256"}),
     enable_cors : Optional(BOOLEAN),
     read_only_tokens : Optional({<<"ro">>})]

\* no -config flag: a file without keys that is never read
NoConfigFile ==
    [given |-> FALSE, max_upload_size |-> <<>>, file_naming_strategy |-> <<>>,
     enable_cors |-> <<>>, read_only_tokens |-> <<>>]

ConfigFiles ==
    {NoConfigFile} \cup
    {[given |-> TRUE, max_upload_size |-> f.max_upload_size,
      file_naming_strategy |-> f.file_naming_strategy,
      enable_cors |-> f.enable_cors, read_only_tokens |-> f.read_only_tokens] :
        f \in Settings}

\* app.Run calls ParseConfig once
Parse ==
    /\ ~app.parsed
    /\ app' = [app EXCEPT !.parsed = TRUE, !.config = ParseConfig(app.args, app.file)]
    /\ UNCHANGED <<config, fs, req, resp, fsBefore, inflight, racing, start>>

InitConfig ==
    /\ config = ServerConfig(FALSE, MaxContentLen, "", FALSE, {}, {})
    /\ fs = <<>>
    /\ fsBefore = <<>>
    /\ req = NoRequest
    /\ resp = NewResponseWriter
    /\ inflight = NoUpload
    /\ racing = [g \in Goroutines |-> NoUpload]
    /\ start = Started(0)
    /\ \E args \in Settings, file \in ConfigFiles :
        app = [parsed |-> FALSE, args |-> args, file |-> file, config |-> DefaultConfig]

NextConfig == Parse

SpecConfig == InitConfig /\ [][NextConfig]_vars

----------------------------------------------------------------------------
(* Properties.  They are stated on the state in which a request has just been
   answered: req is the request, resp the response, fsBefore and fs the
   document root before and after it. *)

Answered == req # NoRequest

\* the body has a part "file" with a file name, as an upload sends it
CarriesFile == req.form.present /\ req.form.filename # ""

IsPutUpload ==
    Answered /\ req.method = "PUT" /\ req.path \in FilePaths /\ CarriesFile

IsPostUpload ==
    Answered /\ req.method = "POST" /\ req.path = <<"/upload">> /\ CarriesFile

IsUpload == IsPutUpload \/ IsPostUpload

\* the content is within the configured limit
Fits == Len(req.form.content) <= config.MaxUploadSize

\* overwrite values that are truthy
Truthy(v) == v \in {"yes", "Yes", "YES", "true", "True", "TRUE", "1"}

\* where the upload goes, as segments below the document root: the URL path
\* after /files/ on PUT, the client's file name on POST
Destination ==
    IF req.method = "PUT" THEN SelectSeq(Tail(req.path), LAMBDA t : t # "/")
    ELSE <<req.form.filename>>

\* the URL under which the upload is served
DestinationURL ==
    IF req.method = "PUT" THEN req.path ELSE <<"/files", "/", req.form.filename>>

\* no component above the destination is a regular file
ParentsClear ==
    \A k \in 1..(Len(Destination) - 1) :
        Kind(fsBefore, SubSeq(Destination, 1, k)) # "file"

\* the response to a following request without body or credentials
Following(method, urlPath) ==
    ServeHTTP(config, fs, Request(method, urlPath, "", <<>>, "", NoForm),
              CHOOSE u \in UUIDs : TRUE).w

\* 201 with the JSON payload naming the destination
Created ==
    /\ resp.status = 201
    /\ resp.body = JSON([ok |-> TRUE, path |-> Concat(DestinationURL)])

\* an error status with the JSON payload carrying a message
Failed(status, msg) ==
    /\ resp.status = status
    /\ resp.body = JSON([ok |-> FALSE, error |-> msg])

\* a following GET returns exactly the uploaded bytes
GetReturnsContent ==
    LET g == Following("GET", DestinationURL) IN
    g.status = 200 /\ g.body = Raw(req.form.content)

\* a following HEAD reports the uploaded length and sends no body
HeadReportsLength ==
    LET h == Following("HEAD", DestinationURL) IN
    h.status = 200 /\ h.body = NoBody /\ h.contentLength = Len(req.form.content)

\* C1 as stated: a PUT of content within MaxUploadSize to /files/n, nothing
\* existing at n, returns 201 with path "/files/n", after which GET returns
\* exactly the content and HEAD its length.  Violated when a component of n
\* above the last is a regular file: the existence check fails, 500.
C1_PutAnyName ==
    (IsPutUpload /\ Fits /\ Kind(fsBefore, Destination) = "none")
        => (Created /\ GetReturnsContent /\ HeadReportsLength)

\* C1, amended: a PUT of content within MaxUploadSize to /files/n, nothing
\* existing at n and no component of n above the last being a regular file,
\* returns 201 with path "/files/n", after which GET /files/n returns exactly
\* the content and HEAD /files/n reports its length with an empty body.
C1_PutRoundTrip ==
    (IsPutUpload /\ Fits /\ Kind(fsBefore, Destination) = "none" /\ ParentsClear)
        => (Created /\ GetReturnsContent /\ HeadReportsLength)

\* a PUT three segments deep of content exactly at the limit was created
C1_Witness ==
    /\ IsPutUpload /\ Fits /\ Kind(fsBefore, Destination) = "none" /\ ParentsClear
    /\ Len(Destination) = 3
    /\ Len(req.form.content) = config.MaxUploadSize
    /\ config.MaxUploadSize > 0
    /\ Created

C3_ConflictTouchesNothing ==
    (IsUpload /\ ~Truthy(req.overwrite) /\ Kind(fsBefore, Destination) # "none")
        => (Failed(409, "the file already exists") /\ fs = fsBefore)

\* an upload with overwrite=0 onto an existing file of other content was refused
C3_Witness ==
    /\ IsUpload /\ req.overwrite = "0"
    /\ Kind(fsBefore, Destination) = "file"
    /\ fsBefore[Destination].data # req.form.content
    /\ resp.status = 409

\* C4 as stated: an upload by POST or PUT with a truthy overwrite to a path
\* holding a file returns 201 and the file then holds exactly the new content.
\* Violated by content above MaxUploadSize, which is answered 413.
C4_OverwriteAnySize ==
    (IsUpload /\ Truthy(req.overwrite) /\ Kind(fsBefore, Destination) = "file")
        => (Created /\ fs[Destination] = File(req.form.content))

\* C4, amended: an upload by POST or PUT of content within MaxUploadSize with
\* a truthy overwrite to a path holding a file returns 201, and the file then
\* holds exactly the new content, none of the old, also when the new is shorter.
C4_OverwriteReplaces ==
    (IsUpload /\ Fits /\ Truthy(req.overwrite) /\ Kind(fsBefore, Destination) = "file")
        => (Created /\ fs[Destination] = File(req.form.content) /\ GetReturnsContent)

\* a file was overwritten by shorter content
C4_Witness ==
    /\ IsUpload /\ Fits /\ Truthy(req.overwrite)
    /\ Kind(fsBefore, Destination) = "file"
    /\ Len(req.form.content) < Len(fsBefore[Destination].data)
    /\ Created

\* C5 as stated: an upload by POST or PUT whose content exceeds MaxUploadSize
\* returns 413 "file size limit exceeded", whether or not the destination
\* exists, whatever the overwrite flag, with or without a client file name.
C5_OversizeAlways413 ==
    (/\ Answered /\ req.form.present
     /\ \/ req.method = "PUT" /\ req.path \in FilePaths
        \/ req.method = "POST" /\ req.path = <<"/upload">>
     /\ Len(req.form.content) > config.MaxUploadSize)
        => Failed(413, "file size limit exceeded")

\* C6 as stated: after a 413 the destination is absent or holds what it held.
C6_RejectedLeavesDestination ==
    (Answered /\ resp.status = 413)
        => /\ Kind(fs, Destination) = Kind(fsBefore, Destination)
           /\ Kind(fs, Destination) = "file"
                => fs[Destination].data = fsBefore[Destination].data

\* the request is on a route that stores or serves files
OnFileRoute ==
    /\ Answered
    /\ \/ req.method \in {"GET", "HEAD", "PUT"} /\ req.path # <<>> /\ Head(req.path) = "/files"
       \/ req.method = "POST" /\ req.path = <<"/upload">>

\* credentials come in one piece: no token at all, a token in the query only,
\* or "Authorization: Bearer <token>" only
PlainCredentials ==
    \/ req.authorization = <<>>
    \/ req.token = "" /\ Len(req.authorization) = 2 /\ req.authorization[1] = "Bearer "

PresentedToken ==
    IF req.authorization = <<>> THEN req.token ELSE req.authorization[2]

\* the token is read-write, or read-only on a read
Permitted ==
    \/ PresentedToken \in config.ReadWriteTokens
    \/ req.method \in {"GET", "HEAD"} /\ PresentedToken \in config.ReadOnlyTokens

\* what the server without authentication makes of the request without credentials
Unguarded ==
    ServeHTTP([config EXCEPT !.EnableAuth = FALSE], fsBefore,
              [req EXCEPT !.authorization = <<>>, !.token = ""],
              CHOOSE u \in UUIDs : TRUE)

\* the request went to its handler as if authentication were off
PassedToHandler == resp = Unguarded.w /\ fs = Unguarded.fs

\* 401 with WWW-Authenticate: Bearer and the given body, the document root untouched
Rejected(body) ==
    /\ resp.status = 401
    /\ resp.wwwAuthenticate = "Bearer"
    /\ resp.body = body
    /\ fs = fsBefore

C8_NoTokenAlways401 ==
    (Answered /\ config.EnableAuth /\ req.method # "OPTIONS"
        /\ req.authorization = <<>> /\ req.token = "")
        => resp.status = 401

\* C9: OPTIONS on /upload or on a path under /files/ is answered 204 with no
\* body, Access-Control-Allow-Methods listing POST for /upload and GET, HEAD,
\* PUT for /files/, whatever the credentials, with authentication on as with it
\* off, whether or not the file exists.
C9_OptionsAlways204 ==
    (Answered /\ req.method = "OPTIONS"
        /\ (req.path = <<"/upload">> \/ req.path \in FilePaths))
        => /\ resp.status = 204
           /\ resp.body = NoBody
           /\ {resp.acam[i] : i \in DOMAIN resp.acam} =
                  (IF req.path = <<"/upload">> THEN {"POST"} ELSE {"GET", "HEAD", "PUT"})
           /\ Len(resp.acam) = Cardinality({resp.acam[i] : i \in DOMAIN resp.acam})
           /\ resp = ServeHTTP([config EXCEPT !.EnableAuth = ~config.EnableAuth],
                               fsBefore, req, CHOOSE u \in UUIDs : TRUE).w
           /\ fs = fsBefore

\* OPTIONS on an existing file under a token that is not configured, with
\* authentication on, was answered
C9_Witness ==
    /\ Answered /\ req.method = "OPTIONS" /\ config.EnableAuth
    /\ req.path \in FilePaths
    /\ Kind(fs, SelectSeq(Tail(req.path), LAMBDA t : t # "/")) = "file"
    /\ req.authorization = <<"Bearer ", "bad">>
    /\ resp.status = 204

\* C10 as stated: with CORS enabled every response carries
\* Access-Control-Allow-Origin: *, whatever the handler and the status.
C10_EveryResponseAllowsOrigin ==
    (Answered /\ config.EnableCORS) => resp.acao = "*"

\* the path is neither /upload nor under /files
OffRoutes ==
    Answered /\ req.path # <<>> /\ Head(req.path) \notin {"/upload", "/files"}

\* C11 as stated: a request with any method (other than HEAD, which has no
\* body) on a path that is neither /upload nor under /files returns 404 with
\* the payload of a GET of a missing file, "file not found".
C11_UnroutedIsFileNotFound ==
    (OffRoutes /\ req.method # "HEAD") => Failed(404, "file not found")

\* the path is routed, the verb is not routed there
VerbNotRouted ==
    /\ Answered
    /\ \/ req.path = <<"/upload">> /\ req.method \notin {"POST", "OPTIONS"}
       \/ req.path \in FilePaths /\ req.method \notin {"GET", "HEAD", "PUT", "OPTIONS"}

\* C12 as stated: a request on /upload or under /files whose verb is not routed
\* there returns 405 "<METHOD> is not allowed on <endpoint>" with an Allow
\* header naming POST for /upload and GET, HEAD, PUT for /files.
C12_NotAllowedNamesAllowed ==
    (VerbNotRouted /\ req.method # "HEAD")
        => /\ Failed(405, req.method \o " is not allowed on " \o Head(req.path))
           /\ {resp.allow[i] : i \in DOMAIN resp.allow} =
                  (IF req.path = <<"/upload">> THEN {"POST"} ELSE {"GET", "HEAD", "PUT"})

\* a PUT whose URL path has nothing after /files/
PutWithoutName ==
    Answered /\ req.method = "PUT" /\ req.path \in {<<"/files">>, <<"/files", "/">>}

\* C13: a PUT on /files/ with an empty target path returns 405 "PUT is accepted
\* on /files/:name", whatever body it carries, and leaves the document root as
\* it was.
C13_PutWithoutNameRejected ==
    PutWithoutName
        => (Failed(405, "PUT is accepted on /files/:name") /\ fs = fsBefore)

\* PUT /files/ carrying a file above the limit, over a non-empty document root,
\* was rejected
C13_Witness ==
    /\ PutWithoutName /\ req.path = <<"/files", "/">>
    /\ CarriesFile /\ ~Fits
    /\ fsBefore # <<>>
    /\ resp.status = 405

\* a GET or HEAD of a path under /files/
IsRead == Answered /\ req.method \in {"GET", "HEAD"} /\ req.path \in FilePaths

\* the path after /files/, as segments below the document root and as a string
Target == SelectSeq(Tail(req.path), LAMBDA t : t # "/")
TargetName == Concat(Tail(Tail(req.path)))

\* C14 as stated: a GET or HEAD of a directory returns 404, the GET with the
\* message "<path> is a directory"; a GET of a path at which nothing exists
\* returns 404 "file not found".
C14_DirectoryOrMissingIs404 ==
    IsRead =>
        /\ Kind(fs, Target) = "dir" =>
              /\ resp.status = 404
              /\ req.method = "GET" =>
                    resp.body = JSON([ok |-> FALSE, error |-> TargetName \o " is a directory"])
        /\ (req.method = "GET" /\ Kind(fs, Target) = "none") =>
              Failed(404, "file not found")

StoredBelowDirectories ==
    /\ \A k \in 1..(Len(Destination) - 1) :
          Kind(fs, SubSeq(Destination, 1, k)) = "dir"
    /\ Kind(fs, Destination) = "file"
    /\ fs[Destination] = File(req.form.content)

\* C16 as stated: a PUT to /files/a/b/c, nothing existing at a, creates a, a/b
\* and the file and returns 201 with path "/files/a/b/c"; every path returned
\* is "/files/" followed by the relative path.  Violated by content above
\* MaxUploadSize, which is answered 413.
C16_PutCreatesDirectoriesAnySize ==
    /\ (IsPutUpload /\ Len(Destination) = 3 /\ Kind(fsBefore, <<Destination[1]>>) = "none")
          => (Created /\ StoredBelowDirectories)
    /\ (IsUpload /\ resp.status = 201) => Created

\* C16, amended: a PUT of content within MaxUploadSize to /files/a/b/c,
\* nothing existing at a, creates the directories a and a/b and the file and
\* returns 201 with path "/files/a/b/c"; the path returned by any upload is
\* "/files/" followed by the relative path, with exactly one leading slash.
C16_PutCreatesDirectories ==
    /\ (IsPutUpload /\ Fits /\ Len(Destination) = 3
            /\ Kind(fsBefore, <<Destination[1]>>) = "none")
          => (Created /\ StoredBelowDirectories)
    /\ (IsUpload /\ resp.status = 201) => Created

\* a PUT three segments deep into an empty document root stored its content
C16_Witness ==
    /\ IsPutUpload /\ Fits /\ Len(Destination) = 3
    /\ fsBefore = <<>>
    /\ req.form.content # <<>>
    /\ Created
    /\ Kind(fs, <<Destination[1], Destination[2]>>) = "dir"

\* the request failed: an error status, or a handler that did not return
FailedRequest == Answered /\ (resp.panicked \/ resp.status >= 400)

\* a body that is the JSON object {"ok": false, "error": <message>}
IsErrorJSON(body) ==
    /\ body.kind = "json"
    /\ DOMAIN body.value = {"ok", "error"}
    /\ body.value.ok = FALSE
    /\ body.value.error # ""

\* C17: every failing request other than HEAD is answered with a JSON body
\* {"ok": false, "error": <message>}: no failure ends with an empty body, a body
\* that is not JSON, or a handler that panicked.
C17_FailureIsErrorJSON ==
    (FailedRequest /\ req.method # "HEAD") =>
        (~resp.panicked /\ IsErrorJSON(resp.body))

\* a download of the whole file that an upload in progress is replacing is
\* answered in this step
DownloadDuringReplace ==
    /\ inflight.pc = "copy" /\ inflight.replaces
    /\ Len(inflight.r.form.content) <= config.MaxUploadSize
    /\ req = NoRequest /\ req' \in ConcurrentDownloads
    /\ RealPath(getPathFromURL(req'.path)) = inflight.path

\* C18: a stored file is never partially visible: a GET that runs while an
\* upload replaces the file at the same path returns the complete old content or
\* the complete new content, never an empty, truncated or mixed file.
C18_DownloadSeesOldOrNew ==
    [][DownloadDuringReplace =>
        (resp'.status = 200 /\
         resp'.body \in {Raw(inflight.old), Raw(inflight.r.form.content)})]_vars

\* the token a "Bearer" Authorization header carries ("" when it carries none)
BearerToken ==
    IF Len(req.authorization) = 2 /\ req.authorization[1] = "Bearer "
    THEN req.authorization[2] ELSE ""

\* a token that opens the request's method: read-write, or read-only on a read
Opens(token) ==
    \/ token \in config.ReadWriteTokens
    \/ req.method \in {"GET", "HEAD"} /\ token \in config.ReadOnlyTokens

\* what the server makes of the request as it is, and without its token query
Outcome(r) == ServeHTTP(config, fsBefore, r, CHOOSE u \in UUIDs : TRUE)

\* C19: token extraction order.  With an Authorization header only the header's
\* token is evaluated and the token query parameter is ignored: the request is
\* answered as it would be without the parameter, and a Bearer header with an
\* invalid token beside a valid query token yields 401.  The query parameter is
\* used only when the header is absent: then the request passes to its handler
\* iff the query token opens its method.
C19_HeaderBeforeQuery ==
    OnFileRoute =>
        /\ req.authorization # <<>> =>
             /\ resp = Outcome([req EXCEPT !.token = ""]).w
             /\ fs = Outcome([req EXCEPT !.token = ""]).fs
        /\ (req.authorization # <<>> /\ Head(req.authorization) = "Bearer "
                /\ ~Opens(BearerToken) /\ Opens(req.token))
             => resp.status = 401 /\ fs = fsBefore
        /\ req.authorization = <<>> =>
             IF Opens(req.token) THEN PassedToHandler
             ELSE resp.status = 401 /\ fs = fsBefore

\* a PUT with an invalid Bearer token in the header and the read-write token in
\* the query was rejected, where the query token alone would have stored the file
C19_Witness ==
    /\ OnFileRoute /\ req.method = "PUT" /\ CarriesFile
    /\ req.authorization = <<"Bearer ", "bad">>
    /\ req.token \in config.ReadWriteTokens
    /\ Outcome([req EXCEPT !.authorization = <<>>]).w.status = 201
    /\ resp.status = 401
    /\ fs = fsBefore

\* the request was authenticated: it is on a guarded route, it was not
\* answered 401, and it is not the OPTIONS request that needs no token
Authenticated == OnFileRoute /\ resp.status # 401

\* the request the middleware handed to the handler
Forwarded == Outcome(req).r

\* C20: after successful authentication the request forwarded to the handler
\* carries no credentials: no Authorization header and no token query parameter,
\* while the overwrite parameter keeps its value, so that the outcome is the one
\* the same request has with authentication disabled.
C20_ForwardedWithoutCredentials ==
    Authenticated =>
        /\ Forwarded.authorization = <<>>
        /\ Forwarded.token = ""
        /\ Forwarded = [req EXCEPT !.authorization = <<>>, !.token = ""]
        /\ resp = ServeHTTP([config EXCEPT !.EnableAuth = FALSE], fsBefore, req,
                            CHOOSE u \in UUIDs : TRUE).w
        /\ fs = ServeHTTP([config EXCEPT !.EnableAuth = FALSE], fsBefore, req,
                          CHOOSE u \in UUIDs : TRUE).fs

\* an upload with the read-write token in the query and overwrite=true replaced
\* an existing file
C20_Witness ==
    /\ Authenticated /\ IsUpload /\ CarriesFile
    /\ req.token \in config.ReadWriteTokens /\ req.authorization = <<>>
    /\ req.overwrite = "true"
    /\ Kind(fsBefore, Destination) = "file"
    /\ resp.status = 201
    /\ fs[Destination].data = req.form.content

\* a handler is running on the server
HandlerRunning == inflight.pc # "idle"

\* Start has returned from a shutdown (not from a failed listen)
ShutDown == start.pc = "returned" /\ start.ready

\* C21: on the shutdown signal the server stops accepting connections and waits
\* at most ShutdownTimeout for the requests in flight; when the timeout expires
\* the remaining connections are closed by force, so that no request handler is
\* still running on the server after Start has returned.
C21_NoHandlerAfterStart ==
    /\ start.inShutdown => ~start.listening
    /\ start.elapsed <= start.ShutdownTimeout
    /\ ShutDown => ~HandlerRunning

\* C22: when the shutdown timeout expires before the requests in flight
\* complete, Start returns that expiry to its caller as an error, so that the
\* caller can tell a shutdown that timed out from one in which every request
\* completed.
C22_StartReportsExpiry ==
    ShutDown => (start.err = DeadlineExceeded <=> start.shutdownErr = DeadlineExceeded)

\* C28: once the context given to Start is cancelled Start returns, and
\* srv.Shutdown has waited no longer than ShutdownTimeout, even when a request in
\* flight never completes; a listen address that cannot be bound makes Start
\* return an error at once, ready not signalled.
C28_StartTerminates ==
    /\ (start.ctxDone ~> start.pc = "returned")
    /\ [](start.elapsed <= start.ShutdownTimeout)
    /\ [](start.err = "unable to listen" <=> (start.pc = "returned" /\ ~start.ready))

\* Start has returned after the timeout expired on a handler that is still running
C28_Witness ==
    /\ ShutDown
    /\ start.ctxDone
    /\ start.ShutdownTimeout > 0
    /\ start.elapsed = start.ShutdownTimeout
    /\ start.shutdownErr = DeadlineExceeded
    /\ HandlerRunning

\* the value a key must have: the flag's when the flag is given, else the
\* file's when the file gives the key, else the default
Precedence(flag, key, default) ==
    IF flag # <<>> THEN flag[1]
    ELSE IF app.file.given /\ key # <<>> THEN key[1]
    ELSE default

\* C23: configuration precedence: for every key the value of a command-line
\* flag precedes the value of the config file, and that one the default, for
\* every value a flag can be set to, zero, false and the empty string included.
C23_FlagsPrecedeFile ==
    app.parsed =>
        /\ app.config.MaxUploadSize =
              Precedence(app.args.max_upload_size, app.file.max_upload_size,
                         DefaultMaxUploadSize)
        /\ app.config.FileNamingStrategy =
              Precedence(app.args.file_naming_strategy, app.file.file_naming_strategy,
                         "uuid")
        /\ app.config.EnableCORS =
              Precedence(app.args.enable_cors, app.file.enable_cors, TRUE)
        /\ app.config.ReadOnlyTokens =
              Precedence(app.args.read_only_tokens, app.file.read_only_tokens, <<>>)

\* a POST whose file part has no file name, under the sha256 strategy
NamelessPost ==
    /\ Answered /\ req.method = "POST" /\ req.path = <<"/upload">>
    /\ req.form.present /\ req.form.filename = ""
    /\ config.FileNamingStrategy = "sha256"

\* the path the sha256 strategy generates for the uploaded bytes
GeneratedPath == <<SHA256Hex(req.form.content)>>

\* C24: when a POST carries no client file name and the sha256 strategy reads
\* the uploaded stream to derive the name, the bytes stored at the generated
\* path are exactly the uploaded bytes, and the size limit still applies.
C24_NamedByContentStoresContent ==
    (NamelessPost /\ (Kind(fsBefore, GeneratedPath) = "" \/ Truthy(req.overwrite))) =>
        IF Fits
        THEN /\ resp.status = 201
             /\ Kind(fs, GeneratedPath) = "file"
             /\ fs[GeneratedPath].data = req.form.content
        ELSE resp.status = 413

\* nothing but its size can stop the upload: no component above the destination
\* is a regular file, the destination is no directory, and it is absent or the
\* request allows overwriting
DestinationFree ==
    /\ Destination # <<>>
    /\ ParentsClear
    /\ Kind(fsBefore, Destination) # "dir"
    /\ Kind(fsBefore, Destination) = "" \/ Truthy(req.overwrite)

C26_OneStatusOneBody ==
    Answered =>
        /\ resp.wroteHeader = 1
        /\ resp.wroteBody <= 1
        /\ resp.status # 0
        /\ resp.wroteBody = 0 <=> resp.body = NoBody

\* a stored file was streamed by handleGet to an authenticated GET
C26_Witness ==
    /\ Answered /\ req.method = "GET" /\ req.path \in FilePaths
    /\ config.EnableAuth /\ req.token \in config.ReadOnlyTokens
    /\ resp.status = 200
    /\ resp.body = Raw(fs[Target].data)
    /\ resp.wroteHeader = 1 /\ resp.wroteBody = 1

\* both uploads have returned
BothReturned == \A g \in Goroutines : racing[g].pc = "done"

\* the content goroutine g uploaded
Uploaded(g) == racing[g].r.form.content

\* C27: two concurrent uploads without overwrite to one path that was absent
\* may both pass the existence check and both return 201, and the last write
\* wins: once both have completed the stored content is exactly the content of
\* one of the two uploads, never a mixture of bytes of both.
C27_LastWriteWins ==
    (BothReturned /\ \E g \in Goroutines : racing[g].status = 201) =>
        /\ Kind(fs, <<"a">>) = "file"
        /\ \E g \in Goroutines : racing[g].status = 201 /\ fs[<<"a">>].data = Uploaded(g)

\* the Authorization header is there and is not of the form "Bearer <token>"
NotBearer == req.authorization # <<>> /\ Head(req.authorization) # "Bearer "

\* C29: a token is taken from the Authorization header only when its value has
\* the form "Bearer <token>": a request whose header uses another scheme, or
\* carries a configured token bare, without the Bearer prefix, is not
\* authenticated by that header and is answered 401.
C29_OnlyBearerHeaders ==
    (OnFileRoute /\ NotBearer) => (resp.status = 401 /\ fs = fsBefore)

\* the request answered is a read, or was answered 401, 404, 405 or 409
LeavesStorage ==
    /\ Answered
    /\ \/ req.method \in {"GET", "HEAD", "OPTIONS"}
       \/ resp.status \in {401, 404, 405, 409}

\* the request answered is an upload that got as far as writing its destination
ReachedWrite ==
    /\ IsUpload /\ CarriesFile
    /\ resp.status \in {201, 413}

\* C30: frame condition: GET, HEAD and OPTIONS requests, and every request
\* answered 401, 404, 405 or 409, leave the storage tree and the configuration
\* unchanged; only a POST or PUT that reaches the write step of the upload
\* pipeline changes storage, and nothing changes the configuration.
C30_Frame ==
    [][/\ config' = config
       /\ LeavesStorage' => fs' = fs
       /\ fs' # fs => ReachedWrite']_vars

\* an upload to an existing file was answered 409 and the file kept its content
C30_Witness ==
    /\ IsUpload /\ CarriesFile
    /\ resp.status = 409
    /\ Kind(fsBefore, Destination) = "file"
    /\ fsBefore[Destination].data # <<>>
    /\ fs = fsBefore

====
